---- MODULE Spec2Model ----
(***************************************************************************)
(* Progress bookkeeping of the two operators of                            *)
(* src/src/dataflow/operators: the external Input (input.rs) and the       *)
(* loop-closing Feedback (feedback.rs).                                    *)
(*                                                                         *)
(* Timestamps are the naturals 0..TimeMax (an unsigned integer type whose  *)
(* largest value is TimeMax).  A delta ledger (CountMap / ChangeBatch) is  *)
(* the sequence of the <<time, delta>> pairs written to it.  A message     *)
(* slot is the Rust Option<Bundle>: Some(time, data) or None (end of       *)
(* stream).                                                                *)
(***************************************************************************)
EXTENDS Integers, Sequences, FiniteSets, TLC

\* ------------------------------------------------------------------ bounds

\* largest value of the timestamp type
TimeMax == 4
\* largest epoch a caller passes to advance_to
MaxEpoch == 2
\* largest number of records a caller passes to send on one Handle
MaxSends == 4
\* largest number of graph replicas (peers)
MaxCopies == 2
\* length of a full buffer (Content::default_length())
Capacity == 2

\* largest number of slots a caller pushes into the Feedback Handle
MaxPushes == 2
\* largest path summary (steps added to a timestamp) of a Feedback
MaxSummary == 2
\* largest number of replicas run side by side
MaxReplicas == 2
\* largest number of records sent into the loop, and largest epoch there
LoopSends == 2
LoopEpoch == 1
\* the same for the loop under fair scheduling
FairSends == 1
FairEpoch == 1

Times == 0..TimeMax

\* ------------------------------------------------------- message slots

Some(t, d) == [some |-> TRUE, time |-> t, data |-> d]
None == [some |-> FALSE, time |-> 0, data |-> <<>>]

\* ------------------------------------------- delta ledger (count-batch)

RECURSIVE Total(_, _)
\* the net delta a ledger holds for timestamp t
Total(ledger, t) ==
    IF ledger = <<>> THEN 0
    ELSE (IF Head(ledger)[1] = t THEN Head(ledger)[2] ELSE 0) + Total(Tail(ledger), t)

\* CountMap::update: records a pending change
update(ledger, t, delta) == Append(ledger, <<t, delta>>)

\* CountMap::drain_into: moves every pending entry, leaving the source empty
drain_into(src, dst) == [src |-> <<>>, dst |-> dst \o src]

\* ------------------------------------------- frontier (MutableAntichain)

\* MutableAntichain::new_bottom: occupancy 1 at t0 and nothing else
new_bottom(t0) == [t \in Times |-> IF t = t0 THEN 1 ELSE 0]

\* MutableAntichain::elements: the minimal timestamps of positive occupancy
elements(occ) ==
    {t \in Times : occ[t] > 0 /\ \A u \in Times : occ[u] > 0 => u >= t}

RECURSIVE Deltas(_, _)
\* one <<t, d>> entry per element of S, in ascending order
Deltas(S, d) ==
    IF S = {} THEN <<>>
    ELSE LET m == CHOOSE x \in S : \A y \in S : x <= y
         IN  <<<<m, d>>>> \o Deltas(S \ {m}, d)

\* MutableAntichain::update_weight: changes the occupancy of t and appends the
\* change of the antichain to the ledger
update_weight(occ, t, delta, ledger) ==
    LET occ2 == [occ EXCEPT ![t] = @ + delta]
        old  == elements(occ)
        new  == elements(occ2)
    IN  [occ    |-> occ2,
         ledger |-> ledger \o Deltas(old \ new, -1) \o Deltas(new \ old, 1)]

\* ------------------------------------------------------------- input.rs

\* Handle::new and the Operator of new_input sharing its cells: the frontier,
\* the progress ledger, the Counter's produced ledger (messages), the Tee's
\* downstream (out: every slot pushed so far; held: for each of them, the
\* occupancy the frontier had at the slot's time when the slot was pushed),
\* and the replica count
Handle_new(copies) ==
    [frontier |-> new_bottom(0),
     progress |-> <<>>,
     messages |-> <<>>,
     out      |-> <<>>,
     held     |-> <<>>,
     buffer   |-> <<>>,
     now_at   |-> 0,
     copies   |-> copies,
     live     |-> TRUE]

\* Tee::push: hands the slot to the consumers of the Stream
Tee_push(h, slot) ==
    [h EXCEPT !.out = Append(@, slot),
              !.held = Append(@, IF slot.some THEN h.frontier[slot.time] ELSE 0)]

\* Counter::push, the counting half: the records of a bundle are recorded as a
\* delta at its time; an empty slot records nothing
Counter_count(ledger, slot) ==
    IF slot.some THEN update(ledger, slot.time, Len(slot.data)) ELSE ledger

\* Counter::push of the Input: counts into messages, then pushes the slot on
Counter_push(h, slot) ==
    Tee_push([h EXCEPT !.messages = Counter_count(@, slot)], slot)

\* Handle::flush (Content::push_at): one bundle of the buffer at now_at
flush(h) ==
    LET h1 == Counter_push(h, Some(h.now_at, h.buffer))
    IN  [h1 EXCEPT !.buffer = <<>>]

\* a close_epoch that leaves the buffered records where they are
close_epoch_noflush(h) ==
    LET h2 == Counter_push(h, None)
        u  == update_weight(h2.frontier, h2.now_at, -1, h2.progress)
    IN  [h2 EXCEPT !.frontier = u.occ, !.progress = u.ledger]

\* a close_epoch that keeps its hold on the epoch it closes
close_epoch_norelease(h) ==
    LET h1 == IF Len(h.buffer) > 0 THEN flush(h) ELSE h
    IN  Counter_push(h1, None)

\* a close_epoch that releases its hold before it flushes
close_epoch_release_first(h) ==
    LET u  == update_weight(h.frontier, h.now_at, -1, h.progress)
        h0 == [h EXCEPT !.frontier = u.occ, !.progress = u.ledger]
        h1 == IF Len(h0.buffer) > 0 THEN flush(h0) ELSE h0
    IN  Counter_push(h1, None)

\* Handle::close_epoch
close_epoch(h) ==
    LET h1 == IF Len(h.buffer) > 0 THEN flush(h) ELSE h
        h2 == Counter_push(h1, None)
        u  == update_weight(h2.frontier, h2.now_at, -1, h2.progress)
    IN  [h2 EXCEPT !.frontier = u.occ, !.progress = u.ledger]

\* a send that flushes only once the buffer has outgrown its capacity
send_late(h, data) ==
    LET h1 == [h EXCEPT !.buffer = Append(@, data)]
    IN  IF Len(h1.buffer) > Capacity THEN flush(h1) ELSE h1

\* Handle::send
send(h, data) ==
    LET h1 == [h EXCEPT !.buffer = Append(@, data)]
    IN  IF Len(h1.buffer) = Capacity THEN flush(h1) ELSE h1

\* the body of advance_to once the assertion has passed, acquiring the new
\* hold with weight w
advance_body(h, next, w) ==
    LET h1 == close_epoch(h)
        h2 == [h1 EXCEPT !.now_at = next]
        u  == update_weight(h2.frontier, h2.now_at, w, h2.progress)
    IN  [ok |-> TRUE, h |-> [h2 EXCEPT !.frontier = u.occ, !.progress = u.ledger]]

\* an advance_to whose assertion accepts the current epoch again
advance_to_ge(h, next) ==
    IF next >= h.now_at THEN advance_body(h, next, 1) ELSE [ok |-> FALSE, h |-> h]

\* an advance_to that acquires one hold per replica
advance_to_copies(h, next) ==
    IF next > h.now_at THEN advance_body(h, next, h.copies) ELSE [ok |-> FALSE, h |-> h]

\* an advance_to that closes the epoch before it checks its argument
advance_to_assert_late(h, next) ==
    IF next > h.now_at THEN advance_body(h, next, 1)
    ELSE [ok |-> FALSE, h |-> close_epoch(h)]

\* Handle::advance_to: ok = FALSE is the failed assertion, which leaves the
\* Handle as it was
advance_to(h, next) ==
    IF next > h.now_at THEN advance_body(h, next, 1) ELSE [ok |-> FALSE, h |-> h]

\* a drop that only forgets the Handle
drop_leak(h) == [h EXCEPT !.live = FALSE]

\* Drop for Handle
drop(h) == [close_epoch(h) EXCEPT !.live = FALSE]

\* Handle::close: the body is empty, and self is dropped at its end
close(h) == drop(h)

\* a summary that reports one hold whatever the number of replicas
Input_get_internal_summary_one(h) ==
    [paths   |-> <<>>,
     initial |-> <<Deltas(elements(h.frontier), 1)>>]

\* Operator::get_internal_summary of the Input
Input_get_internal_summary(h) ==
    [paths   |-> <<>>,
     initial |-> <<Deltas(elements(h.frontier), h.copies)>>]

\* the positions of the three ledgers of Operate::pull_internal_progress, as
\* the Feedback's implementation of the trait names them: messages consumed,
\* frontier progress (held timestamps), messages produced
ContractConsumed == 1
ContractHeld == 2
ContractProduced == 3

\* the positions of the Input's parameters frontier_progress and
\* messages_produced among the three ledgers a caller passes
InputFrontierArg == 1
InputProducedArg == 3

\* Operator::pull_internal_progress of the Input; args are the three ledgers
\* (port 0 of each) in the order the caller passes them
Input_pull_internal_progress(h, args) ==
    LET m == drain_into(h.messages, args[InputProducedArg])
        p == drain_into(h.progress, args[InputFrontierArg])
    IN  [h    |-> [h EXCEPT !.messages = m.src, !.progress = p.src],
         args |-> [args EXCEPT ![InputProducedArg] = m.dst,
                               ![InputFrontierArg] = p.dst],
         ret  |-> FALSE]

\* ---------------------------------------------------------- feedback.rs

\* Summary::results_in for an integer summary: the timestamp advanced by s,
\* or nothing when the sum leaves the timestamp type
results_in(s, t) ==
    IF t + s <= TimeMax THEN [some |-> TRUE, time |-> t + s]
    ELSE [some |-> FALSE, time |-> 0]

\* LoopVariable::loop_variable: the Observer (limit, summary), the two
\* Counters' ledgers shared with the Operator, and the Tee's downstream
\* (stream: every slot that reached the cycle's Stream so far)
loop_variable(limit, summ) ==
    [limit    |-> limit,
     summary  |-> summ,
     consumed |-> <<>>,
     produced |-> <<>>,
     stream   |-> <<>>]

\* Observer.targets.push: the Counter feedback_output over the Tee
Feedback_output_push(f, slot) ==
    [f EXCEPT !.produced = Counter_count(@, slot),
              !.stream = Append(@, slot)]

\* an Observer that compares the timestamp it received with the limit
Observer_push_old_time(f, slot) ==
    LET nt == results_in(f.summary, slot.time)
        message == IF slot.some /\ nt.some THEN [slot EXCEPT !.time = nt.time] ELSE slot
        active == IF slot.some
                  THEN (IF nt.some THEN slot.time <= f.limit ELSE FALSE)
                  ELSE TRUE
    IN  IF active THEN Feedback_output_push(f, message) ELSE f

\* an Observer that forwards only up to one step short of the limit
Observer_push_strict(f, slot) ==
    LET nt == results_in(f.summary, slot.time)
        message == IF slot.some /\ nt.some THEN [slot EXCEPT !.time = nt.time] ELSE slot
        active == IF slot.some
                  THEN (IF nt.some THEN message.time < f.limit ELSE FALSE)
                  ELSE TRUE
    IN  IF active THEN Feedback_output_push(f, message) ELSE f

\* an Observer that checks the advanced timestamp against the limit and
\* forwards the bundle with the timestamp it received
Observer_push_no_advance(f, slot) ==
    LET nt == results_in(f.summary, slot.time)
        active == IF slot.some
                  THEN (IF nt.some THEN nt.time <= f.limit ELSE FALSE)
                  ELSE TRUE
    IN  IF active THEN Feedback_output_push(f, slot) ELSE f

\* Push for Observer
Observer_push(f, slot) ==
    LET nt == results_in(f.summary, slot.time)
        message == IF slot.some /\ nt.some THEN [slot EXCEPT !.time = nt.time] ELSE slot
        active == IF slot.some
                  THEN (IF nt.some THEN message.time <= f.limit ELSE FALSE)
                  ELSE TRUE
    IN  IF active THEN Feedback_output_push(f, message) ELSE f

\* a Handle whose Counter counts the bundle after the Observer has rewritten
\* its timestamp
Feedback_push_after(f, slot) ==
    LET nt == results_in(f.summary, slot.time)
        counted == IF slot.some /\ nt.some THEN [slot EXCEPT !.time = nt.time] ELSE slot
    IN  [Observer_push(f, slot) EXCEPT !.consumed = Counter_count(@, counted)]

\* Handle.target.push: the Counter feedback_input over the Observer
Feedback_push(f, slot) ==
    Observer_push([f EXCEPT !.consumed = Counter_count(@, slot)], slot)

\* Operator::get_internal_summary of the Feedback
Feedback_get_internal_summary(f) ==
    [paths   |-> << << {f.summary} >> >>,
     initial |-> << <<>> >>]

\* the positions of the Feedback's parameters messages_consumed and
\* messages_produced among the three ledgers a caller passes
FeedbackConsumedArg == 1
FeedbackProducedArg == 3

\* a pull that drains only the consumed ledger
Feedback_pull_consumed_only(f, args) ==
    LET c == drain_into(f.consumed, args[FeedbackConsumedArg])
    IN  [f    |-> [f EXCEPT !.consumed = c.src],
         args |-> [args EXCEPT ![FeedbackConsumedArg] = c.dst],
         ret  |-> FALSE]

\* a pull that copies the pending entries and leaves them pending
Feedback_pull_no_clear(f, args) ==
    LET c == drain_into(f.consumed, args[FeedbackConsumedArg])
        p == drain_into(f.produced, args[FeedbackProducedArg])
    IN  [f    |-> f,
         args |-> [args EXCEPT ![FeedbackConsumedArg] = c.dst,
                               ![FeedbackProducedArg] = p.dst],
         ret  |-> FALSE]

\* a pull that asks to be scheduled again while it had something to report
Feedback_pull_busy(f, args) ==
    LET c == drain_into(f.consumed, args[FeedbackConsumedArg])
        p == drain_into(f.produced, args[FeedbackProducedArg])
    IN  [f    |-> [f EXCEPT !.consumed = c.src, !.produced = p.src],
         args |-> [args EXCEPT ![FeedbackConsumedArg] = c.dst,
                               ![FeedbackProducedArg] = p.dst],
         ret  |-> f.consumed # <<>>]

\* a pull that reports the forwarded bundles as held timestamps
Feedback_pull_to_held(f, args) ==
    LET c == drain_into(f.consumed, args[FeedbackConsumedArg])
        p == drain_into(f.produced, args[ContractHeld])
    IN  [f    |-> [f EXCEPT !.consumed = c.src, !.produced = p.src],
         args |-> [args EXCEPT ![FeedbackConsumedArg] = c.dst,
                               ![ContractHeld] = p.dst],
         ret  |-> FALSE]

\* Operator::pull_internal_progress of the Feedback
Feedback_pull_internal_progress(f, args) ==
    LET c == drain_into(f.consumed, args[FeedbackConsumedArg])
        p == drain_into(f.produced, args[FeedbackProducedArg])
    IN  [f    |-> [f EXCEPT !.consumed = c.src, !.produced = p.src],
         args |-> [args EXCEPT ![FeedbackConsumedArg] = c.dst,
                               ![FeedbackProducedArg] = p.dst],
         ret  |-> FALSE]

\* Operator::notify_me of the Feedback
Feedback_notify_me(f) == FALSE

\* Operator::notify_me of the Input
Input_notify_me(h) == FALSE

\* ---------------------------------------------------------------- state

VARIABLES
    input,      \* replica -> the Handle and Operator of its Input
    sent,       \* replica -> number of records passed to send
    sched,      \* replica -> the ledgers the scheduler passes to the Input
    summary,    \* replica -> what the Input's get_internal_summary last returned
    fb,         \* the Feedback: Observer, Counters' ledgers, Stream
    fbSched,    \* the ledgers the scheduler passes to the Feedback
    fbSummary,  \* what the Feedback's get_internal_summary last returned
    pushed,     \* number of slots callers pushed into the Feedback Handle
    readIn,     \* slots of the Input's Stream the loop has taken so far
    readFb,     \* slots of the cycle's Stream the loop has taken so far
    seen,       \* the bundles observed downstream of the concatenation
    last        \* the last call and how it ended

inputVars == <<input, sent, sched, summary>>
fbVars == <<fb, fbSched, fbSummary, pushed>>
loopVars == <<readIn, readFb, seen>>
vars == <<input, sent, sched, summary, fb, fbSched, fbSummary, pushed,
          readIn, readFb, seen, last>>

NoSummary == [paths |-> <<>>, initial |-> <<>>]
NoLedgers == <<<<>>, <<>>, <<>>>>
NoCall == [op |-> "none", r |-> 0, arg |-> 0, slot |-> None, ret |-> "none"]
Call(op, r, arg, ret) == [op |-> op, r |-> r, arg |-> arg, slot |-> None, ret |-> ret]
CallPush(slot) == [op |-> "push", r |-> 0, arg |-> 0, slot |-> slot, ret |-> "ok"]

Replicas == DOMAIN input

RECURSIVE SentTotal(_)
\* the number of records passed to send on the Handles of the replicas in R
SentTotal(R) ==
    IF R = {} THEN 0
    ELSE LET r == CHOOSE x \in R : TRUE IN sent[r] + SentTotal(R \ {r})

\* the Inputs of the replicas in R, each constructed with copies = k
InitInput(R, k) ==
    /\ input = [r \in R |-> Handle_new(k)]
    /\ sent = [r \in R |-> 0]
    /\ sched = [r \in R |-> NoLedgers]
    /\ summary = [r \in R |-> NoSummary]

\* a Feedback constructed by loop_variable(limit, summ)
InitFeedback(limit, summ) ==
    /\ fb = loop_variable(limit, summ)
    /\ fbSched = NoLedgers
    /\ fbSummary = NoSummary
    /\ pushed = 0

InitLoop ==
    /\ readIn = 0
    /\ readFb = 0
    /\ seen = <<>>

\* ------------------------------------------------- calls on the Input

\* send(record): the record is tagged with its number and the epoch the
\* caller read from epoch()
SendUpTo(r, n) ==
    /\ input[r].live
    /\ SentTotal(Replicas) < n
    /\ sent' = [sent EXCEPT ![r] = @ + 1]
    /\ input' = [input EXCEPT ![r] = send(@, <<sent[r] + 1, input[r].now_at>>)]
    /\ last' = Call("send", r, sent[r] + 1, "ok")
    /\ UNCHANGED <<sched, summary, fbVars, loopVars>>

Send(r) == SendUpTo(r, MaxSends)

\* advance_to(next), for any next up to m, increasing or not
AdvanceUpTo(r, m) ==
    \E next \in 0..m :
        LET res == advance_to(input[r], next)
        IN  /\ input[r].live
            /\ input' = [input EXCEPT ![r] = res.h]
            /\ last' = Call("advance_to", r, next, IF res.ok THEN "ok" ELSE "panic")
            /\ UNCHANGED <<sent, sched, summary, fbVars, loopVars>>

AdvanceTo(r) == AdvanceUpTo(r, MaxEpoch)

Close(r) ==
    /\ input[r].live
    /\ input' = [input EXCEPT ![r] = close(@)]
    /\ last' = Call("close", r, 0, "ok")
    /\ UNCHANGED <<sent, sched, summary, fbVars, loopVars>>

Drop(r) ==
    /\ input[r].live
    /\ input' = [input EXCEPT ![r] = drop(@)]
    /\ last' = Call("drop", r, 0, "ok")
    /\ UNCHANGED <<sent, sched, summary, fbVars, loopVars>>

InputPull(r) ==
    LET res == Input_pull_internal_progress(input[r], sched[r])
    IN  /\ input' = [input EXCEPT ![r] = res.h]
        /\ sched' = [sched EXCEPT ![r] = res.args]
        /\ last' = Call("pull_internal_progress", r, 0, IF res.ret THEN "true" ELSE "false")
        /\ UNCHANGED <<sent, summary, fbVars, loopVars>>

InputSummary(r) ==
    /\ summary' = [summary EXCEPT ![r] = Input_get_internal_summary(input[r])]
    /\ last' = Call("get_internal_summary", r, 0, "ok")
    /\ UNCHANGED <<input, sent, sched, fbVars, loopVars>>

\* ---------------------------------------------- calls on the Feedback

\* the bundles a caller pushes: one or two records at any timestamp
BundleData == {<<1>>, <<1, 2>>}

\* a producer pushes a bundle or the end-of-stream slot into the Handle
FeedbackPush ==
    \E slot \in {None} \cup {Some(t, d) : t \in Times, d \in BundleData} :
        /\ pushed < MaxPushes
        /\ pushed' = pushed + 1
        /\ fb' = Feedback_push(fb, slot)
        /\ last' = CallPush(slot)
        /\ UNCHANGED <<fbSched, fbSummary, inputVars, loopVars>>

FeedbackPull ==
    LET res == Feedback_pull_internal_progress(fb, fbSched)
    IN  /\ fb' = res.f
        /\ fbSched' = res.args
        /\ last' = Call("feedback_pull_internal_progress", 0, 0,
                        IF res.ret THEN "true" ELSE "false")
        /\ UNCHANGED <<fbSummary, pushed, inputVars, loopVars>>

FeedbackSummary ==
    /\ fbSummary' = Feedback_get_internal_summary(fb)
    /\ last' = Call("feedback_get_internal_summary", 0, 0, "ok")
    /\ UNCHANGED <<fb, fbSched, pushed, inputVars, loopVars>>

\* ------------------------------------------------------------ the loop

\* ConnectLoop::connect_loop: the channel into the Feedback Handle hands over
\* a bundle taken from the concatenated Stream, which the downstream observer
\* sees too; an empty slot only flushes the channel and carries nothing
LoopDeliver(slot) ==
    IF slot.some
    THEN /\ seen' = Append(seen, slot)
         /\ fb' = Feedback_push(fb, slot)
         /\ last' = CallPush(slot)
    ELSE /\ UNCHANGED <<seen, fb>>
         /\ last' = Call("flush", 0, 0, "ok")

\* the concatenation takes the next slot of the Input's Stream
LoopFromInput ==
    /\ readIn < Len(input[1].out)
    /\ readIn' = readIn + 1
    /\ LoopDeliver(input[1].out[readIn + 1])
    /\ UNCHANGED <<readFb, fbSched, fbSummary, pushed, inputVars>>

\* the concatenation takes the next slot of the cycle's Stream
LoopFromCycle ==
    /\ readFb < Len(fb.stream)
    /\ readFb' = readFb + 1
    /\ LoopDeliver(fb.stream[readFb + 1])
    /\ UNCHANGED <<readIn, fbSched, fbSummary, pushed, inputVars>>

\* ------------------------------------------------------ specifications

\* one Input, constructed with copies = k
InitOne ==
    /\ \E k \in 1..MaxCopies : InitInput({1}, k)
    /\ InitFeedback(0, 0)
    /\ InitLoop
    /\ last = NoCall

NextInput ==
    \/ \E r \in Replicas : Send(r)
    \/ \E r \in Replicas : AdvanceTo(r)
    \/ \E r \in Replicas : Close(r)
    \/ \E r \in Replicas : Drop(r)
    \/ \E r \in Replicas : InputPull(r)
    \/ \E r \in Replicas : InputSummary(r)

SpecInput == InitOne /\ [][NextInput]_vars

\* one Feedback with any limit and summary, fed by a producer
InitFb ==
    /\ InitInput({1}, 1)
    /\ \E limit \in Times, summ \in 0..MaxSummary : InitFeedback(limit, summ)
    /\ InitLoop
    /\ last = NoCall

NextFeedback ==
    \/ FeedbackPush
    \/ FeedbackPull
    \/ FeedbackSummary

SpecFeedback == InitFb /\ [][NextFeedback]_vars

\* one replica whose Input is concatenated with the Stream of a Feedback
\* (summary +1, any limit) and connected back into the Feedback Handle
InitCycle ==
    /\ InitInput({1}, 1)
    /\ \E limit \in Times : InitFeedback(limit, 1)
    /\ InitLoop
    /\ last = NoCall

NextCycle ==
    \/ SendUpTo(1, LoopSends)
    \/ AdvanceUpTo(1, LoopEpoch)
    \/ Close(1)
    \/ Drop(1)
    \/ InputPull(1)
    \/ FeedbackPull
    \/ LoopFromInput
    \/ LoopFromCycle

SpecCycle == InitCycle /\ [][NextCycle]_vars

\* k replicas side by side, each with an Input constructed with copies = k,
\* once the scheduler has taken each Input's initial summary; the calls are
\* those that reach the frontier or its ledger (send reaches neither)
InitReplicas ==
    /\ \E k \in 2..MaxReplicas :
           /\ input = [r \in 1..k |-> Handle_new(k)]
           /\ sent = [r \in 1..k |-> 0]
           /\ sched = [r \in 1..k |-> NoLedgers]
           /\ summary = [r \in 1..k |-> Input_get_internal_summary(Handle_new(k))]
    /\ InitFeedback(0, 0)
    /\ InitLoop
    /\ last = NoCall

NextReplicas ==
    \/ \E r \in Replicas : AdvanceTo(r)
    \/ \E r \in Replicas : Close(r)
    \/ \E r \in Replicas : Drop(r)
    \/ \E r \in Replicas : InputPull(r)

SpecReplicas == InitReplicas /\ [][NextReplicas]_vars

\* ------------------------------------------------- claims on the Input

RECURSIVE Records(_)
\* the records of the bundles of a sequence of slots, in order
Records(slots) ==
    IF slots = <<>> THEN <<>>
    ELSE Head(slots).data \o Records(Tail(slots))

\* every frontier delta the Input of replica r has recorded: those a pull has
\* handed to the scheduler, then those still pending
FrontierDeltas(r) == sched[r][InputFrontierArg] \o input[r].progress

\* C2: ending a Handle, by close() or by drop, flushes the buffered records at
\* the current epoch, records exactly one -1 delta at the current epoch in the
\* frontier ledger and leaves the frontier empty; both ways have this one
\* effect, and an ended Handle records no further delta.
C2_FinalHoldReleased ==
    [][\A r \in Replicas :
        LET h == input[r]
            g == input'[r]
            flushed == IF h.buffer # <<>> THEN <<Some(h.now_at, h.buffer)>> ELSE <<>>
        IN  /\ (h.live /\ ~g.live) =>
                /\ last'.op \in {"close", "drop"}
                /\ g.progress = Append(h.progress, <<h.now_at, -1>>)
                /\ \A t \in Times : g.frontier[t] = 0
                /\ elements(g.frontier) = {}
                /\ g.buffer = <<>>
                /\ g.out = h.out \o flushed \o <<None>>
            /\ (last'.op \in {"close", "drop"} /\ last'.r = r) => (h.live /\ ~g.live)
            /\ ~h.live =>
                /\ ~g.live
                /\ g.frontier = h.frontier
                /\ g.out = h.out
                /\ FrontierDeltas(r)' = FrontierDeltas(r)]_vars

\* C2 witness: a Handle dropped at a later epoch with records still buffered
C2_Witness ==
    /\ last.op = "drop"
    /\ ~input[1].live
    /\ input[1].now_at > 0
    /\ Len(input[1].out) >= 2
    /\ input[1].out[Len(input[1].out) - 1].some
    /\ input[1].out[Len(input[1].out) - 1].time = input[1].now_at

\* C3: advance_to(next) with next not strictly greater than the current epoch
\* fails every time and never adopts next, after any successful advances.
C3_AdvanceMonotone ==
    [][\A r \in Replicas :
        (last'.op = "advance_to" /\ last'.r = r /\ last'.arg <= input[r].now_at) =>
            /\ last'.ret = "panic"
            /\ input'[r].now_at = input[r].now_at
            /\ input'[r] = input[r]]_vars

\* C3 witness: after a successful advance, an advance_to the same epoch failed
C3_Witness ==
    /\ last.op = "advance_to"
    /\ last.ret = "panic"
    /\ input[1].now_at > 0
    /\ last.arg = input[1].now_at

\* C4: for an Input with copies = k on which send and advance_to were never
\* called, get_internal_summary reports occupancy exactly k at the bottom
\* timestamp, no other timestamp, and no internal path summaries.
C4_InitialSummary ==
    [][\A r \in Replicas :
        (/\ last'.op = "get_internal_summary"
         /\ last'.r = r
         /\ input[r].live
         /\ sent[r] = 0
         /\ input[r].now_at = 0) =>
            /\ summary'[r].paths = <<>>
            /\ summary'[r].initial = <<<<<<0, input[r].copies>>>>>>]_vars

\* C4 witness: the summary of a fresh Input with two replicas has been taken
C4_Witness ==
    /\ last.op = "get_internal_summary"
    /\ input[1] = Handle_new(2)
    /\ sent[1] = 0
    /\ Total(summary[1].initial[1], 0) = 2

\* C5: each successful advance_to(next) from epoch e adds to the frontier
\* ledger exactly a -1 delta at e and a +1 delta at next, whatever the number
\* of replicas, and the next pull hands the pending deltas to the caller.
C5_AdvanceDeltas ==
    [][\A r \in Replicas :
        /\ (last'.op = "advance_to" /\ last'.r = r /\ last'.ret = "ok") =>
                input'[r].progress =
                    input[r].progress \o <<<<input[r].now_at, -1>>, <<last'.arg, 1>>>>
        /\ (last'.op = "pull_internal_progress" /\ last'.r = r) =>
                /\ sched'[r][InputFrontierArg] =
                       sched[r][InputFrontierArg] \o input[r].progress
                /\ input'[r].progress = <<>>]_vars

\* C5 witness: with two replicas, a pull has reported exactly the two deltas of
\* one advance_to
C5_Witness ==
    /\ input[1].copies = 2
    /\ last.op = "pull_internal_progress"
    /\ input[1].now_at = 2
    /\ sched[1][InputFrontierArg] = <<<<0, -1>>, <<2, 1>>>>

\* C9: for a single replica, the initial occupancy plus every frontier delta
\* recorded so far (drained or pending) is 1 at the current epoch and 0
\* elsewhere while the Handle is live, and 0 everywhere once it has ended.
C9_HoldAccounting ==
    \A r \in Replicas :
        input[r].copies = 1 =>
            \A t \in Times :
                Total(Input_get_internal_summary(Handle_new(1)).initial[1], t)
                    + Total(FrontierDeltas(r), t)
                = IF input[r].live /\ t = input[r].now_at THEN 1 ELSE 0

\* C9 witness: a live single-replica Handle at epoch 2 with deltas both drained
\* and pending, after sends and pulls
C9_Witness ==
    /\ input[1].copies = 1
    /\ input[1].live
    /\ input[1].now_at = 2
    /\ sched[1][InputFrontierArg] # <<>>
    /\ input[1].progress # <<>>
    /\ sent[1] > 0

\* C10: the records passed to send are emitted exactly once and in send order,
\* each in a bundle stamped with the epoch current at its send; what is still
\* buffered was sent at the current epoch, and nothing is buffered once the
\* Handle has ended.
C10_RecordsEmitted ==
    \A r \in Replicas :
        LET all == Records(input[r].out) \o input[r].buffer
        IN  /\ Len(all) = sent[r]
            /\ \A i \in 1..Len(all) : all[i][1] = i
            /\ \A i \in 1..Len(input[r].out) :
                   \A j \in 1..Len(input[r].out[i].data) :
                       input[r].out[i].data[j][2] = input[r].out[i].time
            /\ \A j \in 1..Len(input[r].buffer) :
                   input[r].buffer[j][2] = input[r].now_at
            /\ ~input[r].live => input[r].buffer = <<>>

\* C10 witness: an ended Handle that emitted records at two different epochs,
\* one bundle by a full buffer and one by the flush of advance_to or close
C10_Witness ==
    /\ ~input[1].live
    /\ sent[1] = 3
    /\ \E i, j \in 1..Len(input[1].out) :
           /\ input[1].out[i].some
           /\ input[1].out[j].some
           /\ input[1].out[i].time < input[1].out[j].time
           /\ Len(input[1].out[i].data) # Len(input[1].out[j].data)

\* ---------------------------------------------- claims on the Feedback

\* C1: a bundle with timestamp t pushed into the Feedback Handle reaches the
\* cycle's Stream if and only if results_in(t) is defined and <= limit, and
\* then carries the timestamp results_in(t); otherwise nothing reaches the
\* Stream; an end-of-stream slot is always forwarded.
C1_ForwardIffWithinLimit ==
    [][last'.op = "push" =>
        LET slot == last'.slot
            nt == results_in(fb.summary, slot.time)
        IN  IF ~slot.some
            THEN fb'.stream = Append(fb.stream, None)
            ELSE IF nt.some /\ nt.time <= fb.limit
            THEN fb'.stream = Append(fb.stream, Some(nt.time, slot.data))
            ELSE fb'.stream = fb.stream]_vars

\* C1 witness: a Feedback with a non-identity summary forwarded one bundle that
\* landed exactly on the limit and then dropped one whose advanced timestamp is
\* defined and beyond the limit
C1_Witness ==
    /\ fb.summary > 0
    /\ pushed = 2
    /\ Len(fb.stream) = 1
    /\ fb.stream[1].some
    /\ fb.stream[1].time = fb.limit
    /\ last.op = "push"
    /\ last.slot.some
    /\ results_in(fb.summary, last.slot.time).some
    /\ results_in(fb.summary, last.slot.time).time > fb.limit

\* ------------------------------------------------- claims on the loop

IsPrefix(a, b) == Len(a) <= Len(b) /\ SubSeq(b, 1, Len(a)) = a

\* every delta written so far to each operator ledger: those pulls have handed
\* to the scheduler, then those still pending
InputFrontierAll == sched[1][InputFrontierArg] \o input[1].progress
InputProducedAll == sched[1][InputProducedArg] \o input[1].messages
FeedbackConsumedAll == fbSched[FeedbackConsumedArg] \o fb.consumed
FeedbackProducedAll == fbSched[FeedbackProducedArg] \o fb.produced

\* C6: under any interleaving of Handle and pusher operations with pulls, each
\* delta written to an operator ledger reaches the scheduler's ledgers by
\* exactly one pull, never lost and never duplicated, and right after a pull
\* the operator's own ledgers are empty.
C6_DrainExactlyOnce ==
    [][/\ IsPrefix(InputFrontierAll, InputFrontierAll')
       /\ IsPrefix(InputProducedAll, InputProducedAll')
       /\ IsPrefix(FeedbackConsumedAll, FeedbackConsumedAll')
       /\ IsPrefix(FeedbackProducedAll, FeedbackProducedAll')
       /\ IF last'.op = "pull_internal_progress"
          THEN /\ input'[1].progress = <<>>
               /\ input'[1].messages = <<>>
               /\ InputFrontierAll' = InputFrontierAll
               /\ InputProducedAll' = InputProducedAll
          ELSE sched' = sched
       /\ IF last'.op = "feedback_pull_internal_progress"
          THEN /\ fb'.consumed = <<>>
               /\ fb'.produced = <<>>
               /\ FeedbackConsumedAll' = FeedbackConsumedAll
               /\ FeedbackProducedAll' = FeedbackProducedAll
          ELSE fbSched' = fbSched]_vars

\* C6 witness: both operators have had deltas drained by pulls, the Feedback
\* by more than one, and the Input has new deltas pending
C6_Witness ==
    /\ last.op = "feedback_pull_internal_progress"
    /\ fb.consumed = <<>>
    /\ fb.produced = <<>>
    /\ Len(fbSched[FeedbackConsumedArg]) >= 2
    /\ fbSched[FeedbackProducedArg] # <<>>
    /\ sched[1][InputFrontierArg] # <<>>
    /\ sched[1][InputProducedArg] # <<>>
    /\ input[1].progress # <<>>

RECURSIVE TimesOf(_, _)
\* the timestamps of the bundles of a sequence of slots that carry record rec
TimesOf(slots, rec) ==
    IF slots = <<>> THEN <<>>
    ELSE (IF \E j \in 1..Len(Head(slots).data) : Head(slots).data[j] = rec
          THEN <<Head(slots).time>> ELSE <<>>) \o TimesOf(Tail(slots), rec)

\* nothing is in flight: the loop has taken every slot of both Streams
Quiescent == readIn = Len(input[1].out) /\ readFb = Len(fb.stream)

\* C7: with summary +1 and limit L, a record sent at epoch 0 is observed
\* downstream at the timestamps 0, 1, ..., L, once each and in this order, and
\* never beyond; once nothing is in flight it has been observed at all of
\* them and the Feedback forwarded it at 1..L only, dropping the copy that
\* arrived at L.
C7_ObservedUpToLimit ==
    \A id \in 1..sent[1] :
        LET rec == <<id, 0>>
            ts == TimesOf(seen, rec)
            fs == TimesOf(fb.stream, rec)
        IN  (\E i \in 1..Len(Records(input[1].out)) : Records(input[1].out)[i] = rec) =>
                /\ ts = [i \in 1..Len(ts) |-> i - 1]
                /\ Len(ts) <= fb.limit + 1
                /\ fs = [i \in 1..Len(fs) |-> i]
                /\ Len(fs) <= fb.limit
                /\ Quiescent =>
                       /\ Len(ts) = fb.limit + 1
                       /\ Len(fs) = fb.limit
                       /\ Total(FeedbackConsumedAll, fb.limit) >= 1
                       /\ Total(FeedbackProducedAll, fb.limit + 1) = 0

\* C7 witness: with limit 3 the record sent first, at epoch 0, has been
\* observed at 0, 1, 2, 3 and nothing is in flight
C7_Witness ==
    /\ fb.limit = 3
    /\ fb.summary = 1
    /\ Quiescent
    /\ TimesOf(seen, <<1, 0>>) = <<0, 1, 2, 3>>
    /\ TimesOf(fb.stream, <<1, 0>>) = <<1, 2, 3>>

\* ---------------------------------------------- claims on the replicas

RECURSIVE ReportedFrontier(_, _)
\* the net frontier delta at t that the pulls of the replicas in R reported
ReportedFrontier(R, t) ==
    IF R = {} THEN 0
    ELSE LET r == CHOOSE x \in R : TRUE
         IN  Total(sched[r][InputFrontierArg], t) + ReportedFrontier(R \ {r}, t)

\* the occupancy of a tracker that starts from the initial summary of one
\* Input and applies the frontier deltas every replica's pulls reported
TrackerOccupancy(t) ==
    Total(summary[1].initial[1], t) + ReportedFrontier(Replicas, t)

\* the replicas whose release of the bottom timestamp the tracker has not
\* been told of: still at the bottom, or the -1 is pending in their ledger
HoldingBottom ==
    {r \in Replicas :
        \/ input[r].live /\ input[r].now_at = 0
        \/ \E i \in 1..Len(input[r].progress) : input[r].progress[i] = <<0, -1>>}

\* C8: with k replicas, each Input with copies = k, the tracker's occupancy at
\* the bottom timestamp counts the replicas whose Handle has not yet left the
\* bottom (advanced past it or ended) as far as reported: positive while any
\* Handle is at the bottom, zero exactly when the last release is reported,
\* and never negative at any timestamp.
C8_TrackerHoldsBottom ==
    /\ \A t \in Times : TrackerOccupancy(t) >= 0
    /\ TrackerOccupancy(0) = Cardinality(HoldingBottom)
    /\ (\E r \in Replicas : input[r].live /\ input[r].now_at = 0) =>
           TrackerOccupancy(0) > 0

\* C8 witness: one replica advanced and another ended, both reported, and the
\* tracker's occupancy at the bottom is zero
C8_Witness ==
    /\ Cardinality(Replicas) >= 2
    /\ \E r \in Replicas : input[r].live /\ input[r].now_at > 0
    /\ \E r \in Replicas : ~input[r].live /\ input[r].now_at = 0
    /\ HoldingBottom = {}
    /\ TrackerOccupancy(0) = 0

\* ------------------------------------------------ claims C11 to C20

\* the records sent at the current epoch of replica r: those of the bundles
\* emitted at now_at and those still buffered
SentAtEpoch(r) ==
    LET h == input[r]
    IN  Len(Records(SelectSeq(h.out, LAMBDA s : s.some /\ s.time = h.now_at)))
        + Len(h.buffer)

\* the bundles emitted at the current epoch of replica r
BundlesAtEpoch(r) ==
    SelectSeq(input[r].out, LAMBDA s : s.some /\ s.time = input[r].now_at)

\* C11: while a Handle is live, the n records sent since its buffer was last
\* empty at the start of the epoch (construction or advance_to) have caused
\* exactly n \div Capacity automatic flushes, each of one full bundle, and
\* n % Capacity records are buffered; a buffer never holds Capacity records
\* once a call has returned.
C11_FlushBoundary ==
    \A r \in Replicas :
        LET h == input[r]
            n == SentAtEpoch(r)
        IN  /\ Len(h.buffer) < Capacity
            /\ h.live =>
                /\ Len(BundlesAtEpoch(r)) = n \div Capacity
                /\ \A i \in 1..Len(BundlesAtEpoch(r)) :
                        Len(BundlesAtEpoch(r)[i].data) = Capacity
                /\ Len(h.buffer) = n % Capacity
            /\ (h.live /\ h.now_at = 0) => n = sent[r]

\* C11 witness: exactly two buffers' worth of sends caused two flushes and left
\* the buffer empty
C11_Witness ==
    /\ last.op = "send"
    /\ input[1].live
    /\ input[1].now_at = 0
    /\ sent[1] = 2 * Capacity
    /\ Len(input[1].out) = 2
    /\ input[1].buffer = <<>>

\* C12: a pull of the Input, handed the three ledgers in the order consumed,
\* held, produced, moves the pending hold deltas into the held ledger only and
\* the pending produced counts into the produced ledger only, and leaves the
\* consumed ledger as it was.
C12_InputLedgerSeparation ==
    [][\A r \in Replicas :
        (last'.op = "pull_internal_progress" /\ last'.r = r) =>
            /\ sched'[r][ContractHeld] = sched[r][ContractHeld] \o input[r].progress
            /\ sched'[r][ContractProduced] =
                    sched[r][ContractProduced] \o input[r].messages
            /\ sched'[r][ContractConsumed] = sched[r][ContractConsumed]]_vars

\* C13: in a state reached by a pull, with no push, send, advance_to or close
\* since, the same pull again appends nothing to any of the caller's three
\* ledgers and leaves the operator as it is, so any number of repetitions
\* adds nothing; this holds for the Input and for the Feedback.
C13_DrainIdempotentEmpty ==
    /\ last.op = "pull_internal_progress" =>
            LET again == Input_pull_internal_progress(input[last.r], sched[last.r])
            IN  /\ again.args = sched[last.r]
                /\ again.h = input[last.r]
    /\ last.op = "feedback_pull_internal_progress" =>
            LET again == Feedback_pull_internal_progress(fb, fbSched)
            IN  /\ again.args = fbSched
                /\ again.f = fb

\* C13 witness: a Feedback pull has just handed over counts, after the Input's
\* pull had handed over its own
C13_Witness ==
    /\ last.op = "feedback_pull_internal_progress"
    /\ fbSched[FeedbackConsumedArg] # <<>>
    /\ fbSched[FeedbackProducedArg] # <<>>
    /\ sched[1][InputFrontierArg] # <<>>
    /\ sched[1][InputProducedArg] # <<>>

\* C14: every get_internal_summary of the Input, at any point of the Handle's
\* life, changes neither the Handle (frontier, ledgers, buffer, epoch) nor the
\* scheduler's ledgers, and reports copies occurrences of the bottom timestamp
\* as the initial frontier of output 0.
C14_SummaryAlwaysBottom ==
    [][\A r \in Replicas :
        (last'.op = "get_internal_summary" /\ last'.r = r) =>
            /\ input' = input
            /\ sched' = sched
            /\ summary'[r] = [paths   |-> <<>>,
                              initial |-> << << <<0, input[r].copies>> >> >>]]_vars

\* C15: in every reachable state, whatever is buffered in a Handle or pending
\* in the Feedback's ledgers, pull_internal_progress of the Input and of the
\* Feedback returns false, every pull that was made returned false, and
\* notify_me of both operators returns false.
C15_NeverActive ==
    /\ last.op \in {"pull_internal_progress", "feedback_pull_internal_progress"} =>
            last.ret = "false"
    /\ \A r \in Replicas :
            /\ ~Input_pull_internal_progress(input[r], sched[r]).ret
            /\ ~Input_notify_me(input[r])
    /\ ~Feedback_pull_internal_progress(fb, fbSched).ret
    /\ ~Feedback_notify_me(fb)

\* C15 witness: the Input's pull returned while a record sat in the buffer and
\* the Feedback had bundles it had not reported yet
C15_Witness ==
    /\ last.op = "pull_internal_progress"
    /\ last.ret = "false"
    /\ input[1].buffer # <<>>
    /\ fb.consumed # <<>>
    /\ fb.produced # <<>>

\* the accounting of one step of the Feedback: a pushed bundle adds one entry
\* to the consumed ledger at the timestamp it arrived with, and one entry to
\* the produced ledger at the advanced timestamp exactly when it reached the
\* cycle's Stream; the end-of-stream slot and a pull add nothing.  The entry
\* weighs the records of the bundle (perRecord) or one per bundle.
FeedbackAccounting(perRecord) ==
    LET slot == last'.slot
        w == IF perRecord THEN Len(slot.data) ELSE 1
        forwarded == Len(fb'.stream) > Len(fb.stream)
    IN  /\ (last'.op = "push" /\ slot.some) =>
            /\ FeedbackConsumedAll' = Append(FeedbackConsumedAll, <<slot.time, w>>)
            /\ forwarded =>
                FeedbackProducedAll' =
                    Append(FeedbackProducedAll, <<slot.time + fb.summary, w>>)
            /\ ~forwarded => FeedbackProducedAll' = FeedbackProducedAll
        /\ (last'.op = "push" /\ ~slot.some) =>
            /\ FeedbackConsumedAll' = FeedbackConsumedAll
            /\ FeedbackProducedAll' = FeedbackProducedAll
        /\ last'.op = "feedback_pull_internal_progress" =>
            /\ FeedbackConsumedAll' = FeedbackConsumedAll
            /\ FeedbackProducedAll' = FeedbackProducedAll

\* C16 as stated: every bundle pushed adds one to the consumed total at its
\* original timestamp, forwarded or dropped, and one to the produced total at
\* the advanced timestamp only when forwarded, so the totals are the numbers of
\* bundles pushed and forwarded; the end-of-stream slot changes neither.
C16_BundleAccounting == [][FeedbackAccounting(FALSE)]_vars

\* C16 amended: every bundle pushed adds the number of its records to the
\* consumed total at its original timestamp, forwarded or dropped, and the
\* same number to the produced total at the advanced timestamp only when
\* forwarded, so the totals are the numbers of records pushed and forwarded;
\* the end-of-stream slot changes neither.
C16_RecordAccounting == [][FeedbackAccounting(TRUE)]_vars

\* C16 witness: of two bundles pushed one was forwarded and one dropped, the
\* last of them carrying two records, and both are in the consumed ledger
C16_Witness ==
    /\ last.op = "push"
    /\ last.slot.some
    /\ Len(last.slot.data) = 2
    /\ Len(fb.stream) = 1
    /\ fb.stream[1].some
    /\ Len(FeedbackConsumedAll) = 2
    /\ Len(FeedbackProducedAll) = 1

\* C17: every bundle the Input pushes, by the automatic flush of send or by the
\* flush of advance_to, close or drop, is stamped with a timestamp the
\* frontier holds at the moment of the push, and a call never pushes a bundle
\* at a timestamp whose releasing -1 delta was recorded before it.
C17_EmitsOnlyHeld ==
    [][\A r \in Replicas :
        LET h == input[r]
            g == input'[r]
        IN  /\ \A i \in 1..Len(g.out) : g.out[i].some => g.held[i] > 0
            /\ \A i \in (Len(h.out) + 1)..Len(g.out) :
                    g.out[i].some =>
                        /\ h.frontier[g.out[i].time] > 0
                        /\ \A j \in 1..Len(FrontierDeltas(r)) :
                                FrontierDeltas(r)[j] # <<g.out[i].time, -1>>]_vars

\* C17 witness: drop flushed a buffered record at a later epoch, whose hold was
\* still in place at the push and is released now
C17_Witness ==
    /\ last.op = "drop"
    /\ input[1].now_at > 0
    /\ Len(input[1].out) >= 2
    /\ input[1].out[Len(input[1].out) - 1].some
    /\ input[1].out[Len(input[1].out) - 1].time = input[1].now_at
    /\ input[1].held[Len(input[1].out) - 1] = 1
    /\ input[1].frontier[input[1].now_at] = 0
    /\ \E j \in 1..Len(FrontierDeltas(1)) :
            FrontierDeltas(1)[j] = <<input[1].now_at, -1>>

\* -------------------------------------------- the loop under fair scheduling

\* with summary +1 a bundle is observed at most once per timestamp, so the
\* bundles of FairSends records are observed at most this many times
MaxPasses == (TimeMax + 1) * FairSends

\* the concatenation takes the next slot of the cycle's Stream, for as long as
\* the loop has not observed MaxPasses bundles
LoopFromCycleUpTo ==
    /\ Len(seen) < MaxPasses
    /\ LoopFromCycle

\* one replica whose Input is concatenated with the Stream of a Feedback of
\* any limit, with summary +1 or the identity summary, and connected back
InitLoopFair ==
    /\ InitInput({1}, 1)
    /\ \E limit \in Times, summ \in {0, 1} : InitFeedback(limit, summ)
    /\ InitLoop
    /\ last = NoCall

NextLoopFair ==
    \/ SendUpTo(1, FairSends)
    \/ AdvanceUpTo(1, FairEpoch)
    \/ Drop(1)
    \/ FeedbackPull
    \/ LoopFromInput
    \/ LoopFromCycleUpTo

\* the channels deliver every slot they hold, and the scheduler keeps pulling
\* the Feedback
SpecLoopFair ==
    /\ InitLoopFair
    /\ [][NextLoopFair]_vars
    /\ WF_vars(LoopFromInput)
    /\ WF_vars(LoopFromCycleUpTo)
    /\ WF_vars(FeedbackPull)

RECURSIVE Sum(_)
\* the sum of the deltas of a ledger, over all timestamps
Sum(ledger) ==
    IF ledger = <<>> THEN 0 ELSE Head(ledger)[2] + Sum(Tail(ledger))

\* nothing is in flight, nothing is pending in the Feedback, and what the
\* Feedback has reported is one entry per bundle it received and per bundle it
\* forwarded, weighing their records
Settled ==
    /\ Quiescent
    /\ fb.consumed = <<>>
    /\ fb.produced = <<>>
    /\ Len(fbSched[FeedbackConsumedArg]) = Len(seen)
    /\ Sum(fbSched[FeedbackConsumedArg]) = Len(Records(seen))
    /\ Len(fbSched[FeedbackProducedArg]) = Len(fb.stream)
    /\ Sum(fbSched[FeedbackProducedArg]) = Len(Records(fb.stream))

\* a bundle within the limit has entered the loop
EnteredWithinLimit == \E i \in 1..Len(seen) : seen[i].time <= fb.limit

\* C18: with summary +1 and a finite limit, once the finitely many records
\* have entered, fair delivery and pulling reach a state with nothing in
\* flight in which the Feedback has reported every bundle received and
\* forwarded, and that state lasts, so nothing more is reported; with the
\* identity summary a bundle within the limit is forwarded on every pass, so a
\* bundle is in flight in every state after it entered.
C18_CycleQuiescence ==
    /\ (fb.summary = 1) => <>[]Settled
    /\ []((fb.summary = 0 /\ EnteredWithinLimit) => ~Quiescent)

\* C18 witness: with summary +1 the loop has settled after a bundle went
\* round up to the limit and was dropped there
C18_Witness ==
    /\ fb.summary = 1
    /\ fb.limit >= 2
    /\ Settled
    /\ Len(seen) > Len(fb.stream)
    /\ Len(fb.stream) >= 2

\* C19: the Feedback reports no frontier hold: its summary, once taken, is the
\* single edge from input 0 to output 0 carrying the configured summary, with
\* an empty initial frontier for output 0; the held ledger of the caller is
\* empty in every state, and a pull appends the pending consumed counts to the
\* consumed ledger and the pending produced counts to the produced ledger.
C19_FeedbackHoldsNothing ==
    [][/\ fbSched'[ContractHeld] = <<>>
       /\ last'.op = "feedback_get_internal_summary" =>
            /\ Len(fbSummary'.paths) = 1
            /\ Len(fbSummary'.paths[1]) = 1
            /\ fbSummary'.paths[1][1] = {fb.summary}
            /\ fbSummary'.initial = << <<>> >>
            /\ fb' = fb
            /\ fbSched' = fbSched
       /\ last'.op = "feedback_pull_internal_progress" =>
            /\ fbSched'[ContractConsumed] = fbSched[ContractConsumed] \o fb.consumed
            /\ fbSched'[ContractHeld] = fbSched[ContractHeld]
            /\ fbSched'[ContractProduced] = fbSched[ContractProduced] \o fb.produced]_vars

\* C19 witness: the summary was taken and a pull has handed over consumed and
\* produced counts, the held ledger staying empty
C19_Witness ==
    /\ last.op = "feedback_pull_internal_progress"
    /\ fbSummary # NoSummary
    /\ fbSched[ContractConsumed] # <<>>
    /\ fbSched[ContractProduced] # <<>>
    /\ fbSched[ContractHeld] = <<>>

\* C20: an advance_to that fails does so before it changes anything: the
\* epoch, the buffered records, the frontier, the pending frontier and
\* produced ledgers, the slots pushed so far and the ledgers of the scheduler
\* are those of before the call, so the call flushed no bundle and recorded no
\* hold delta.
C20_FailedAdvanceChangesNothing ==
    [][\A r \in Replicas :
        (last'.op = "advance_to" /\ last'.r = r /\ last'.ret = "panic") =>
            /\ input'[r].now_at = input[r].now_at
            /\ input'[r].buffer = input[r].buffer
            /\ input'[r].frontier = input[r].frontier
            /\ input'[r].progress = input[r].progress
            /\ input'[r].messages = input[r].messages
            /\ input'[r].out = input[r].out
            /\ input'[r].live = input[r].live
            /\ sched' = sched
            /\ sent' = sent]_vars

\* C20 witness: an advance_to failed at a later epoch with a record buffered
\* and hold deltas pending, all of which are still there
C20_Witness ==
    /\ last.op = "advance_to"
    /\ last.ret = "panic"
    /\ input[1].live
    /\ input[1].now_at > 0
    /\ last.arg < input[1].now_at
    /\ input[1].buffer # <<>>
    /\ input[1].progress # <<>>
    /\ input[1].frontier[input[1].now_at] = 1

====
